---- MODULE Spec2Model ----
(***************************************************************************)
(* Model of one game room of src/server/server.js: the phase state machine *)
(* (goto* functions), the room deadline (startTimer / clearTimeout), the   *)
(* delayed transitions (bare setTimeout calls) and the websocket message   *)
(* handlers.  Node runs every handler and every timer callback to          *)
(* completion, so each of them is one atomic action.                       *)
(*                                                                         *)
(* Time.  `pending` lists the delayed transitions in the order in which    *)
(* they will run.  A transition scheduled with delay d runs after every    *)
(* pending one whose own delay is at most d (that one was scheduled        *)
(* earlier and is due no later); against a pending one with a longer delay *)
(* both orders are possible, depending on how long ago it was scheduled.   *)
(* The room deadline lasts 20 s or more, every delay is 3 s or less, and   *)
(* every handler that schedules a delayed transition while a deadline is   *)
(* armed first clears the deadline, so a deadline can only expire when no  *)
(* delayed transition is pending.                                          *)
(***************************************************************************)
EXTENDS Integers, Sequences, FiniteSets, TLC

VARIABLES room, issued, sent, quiet

vars == <<room, issued, sent, quiet>>

\* ---------------------------------------------------------------- bounds
MaxMsgs   == 3  \* messages that change the room once the game has started
QuietMsgs == 2  \* the same, in the runs where the messages stop
NCiv      == 2  \* size of the civilization catalog (data file)
NumIds    == 2  \* player ids drawn in a run of the game
TrioIds   == 3  \* player ids drawn in a run of the three-player game
LobbyIds  == 9  \* player ids drawn in a run of the lobby
TallyIds  == 6  \* largest roster of a run of the rating tally
MapIds    == 3  \* largest roster of a run of the map phase

\* ------------------------------------------------------ program constants
MaxPlayers == 8   \* join_room capacity
MinPlayers == 2   \* start_game minimum
D500       == 500   \* setTimeout delays, in ms
D1500      == 1500
D2000      == 2000
D2500      == 2500
D3000      == 3000

Nil     == "nil"                       \* null / undefined
IdSeq   == <<"p1", "p2", "p3", "p4", "p5", "p6", "p7", "p8", "p9", "p10">>
AllIds  == {IdSeq[i] : i \in 1..Len(IdSeq)}
Keys    == AllIds \cup {Nil}           \* keys roundScores is read with
Civs    == 1..NCiv                     \* civData.civilizations, in order
RoomCode == "ROOM"                     \* the code of the modelled room
Codes    == {RoomCode, "XXXX"}         \* codes a join_room may carry

PHASES == {"lobby", "civ_select", "attack_prep", "defense", "cancel_vote",
           "rating", "map", "round_end"}

\* ---------------------------------------------------------------- helpers
Range(s) == {s[i] : i \in 1..Len(s)}

Remove(s, x) == SelectSeq(s, LAMBDA y : y # x)

\* shuffle(arr): any permutation of arr
shuffle(s) == {t \in [1..Len(s) -> Range(s)] : Range(t) = Range(s)}

Max(a, b) == IF a >= b THEN a ELSE b

\* ------------------------------------------------------------ room record
NoTimer == [kind |-> "none", targets |-> <<>>, defenderId |-> Nil]

NoAttack == [attackerId |-> Nil, defenderId |-> Nil, factId |-> Nil,
             fallacyId |-> Nil]

EmptyMap == [p \in {} |-> Nil]         \* {}

NoMap == [grid |-> 0, owner |-> EmptyMap]   \* room.map = null

NoCell == -1                           \* find() without a match

createRoom ==
  [ phase |-> "lobby",
    players |-> <<>>,                  \* Object.keys(room.players)
    civ |-> [p \in AllIds |-> 0],      \* players[p].civId, 0 = null
    score |-> [p \in AllIds |-> 0],    \* players[p].score
    round |-> 0,
    attackOrder |-> <<>>,
    currentAttackerIdx |-> 0,
    currentAttack |-> NoAttack,
    defenseChoice |-> Nil,
    cancelVotes |-> EmptyMap,
    ratings |-> EmptyMap,
    roundScores |-> [k \in Keys |-> 0],  \* absent keys read as 0
    map |-> NoMap,
    timer |-> NoTimer,                 \* the armed deadline and its closure
    armed |-> 0,                       \* startTimer callbacks in the timer queue
    pending |-> <<>>,                  \* setTimeout callbacks not yet run
    nRatingTally |-> 0,                \* history: tallyRatings runs this round
    nCancelTally |-> 0 ]               \* history: tallyCancel runs, this attack

\* clearTimeout(room.timer): the deadline the handle names, if it is still
\* armed, leaves the timer queue
clearTimeout(r) ==
  [r EXCEPT !.timer = NoTimer,
            !.armed = IF r.timer = NoTimer THEN @ ELSE @ - 1]

\* variant of startTimer: the handle is overwritten without clearTimeout
startTimerKeepsOld(r, k, tg, d) ==
  [r EXCEPT !.timer = [kind |-> k, targets |-> tg, defenderId |-> d],
            !.armed = @ + 1]

\* startTimer: clearTimeout(room.timer), then arm the new deadline
startTimer(r, k, tg, d) ==
  [clearTimeout(r) EXCEPT
     !.timer = [kind |-> k, targets |-> tg, defenderId |-> d],
     !.armed = @ + 1]

\* setTimeout(cb, delay): the new entry is appended and marked; Settle
\* gives the places of the run order it can take
setTimeout(r, cb, delay) ==
  [r EXCEPT !.pending = Append(@, [kind |-> cb, delay |-> delay, new |-> TRUE])]

InsertAt(s, i, e) == SubSeq(s, 1, i - 1) \o <<e>> \o SubSeq(s, i, Len(s))

\* the rooms r can stand for once the run order of a new entry is fixed
Settle(r) ==
  LET n == Len(r.pending)
  IN IF n = 0 \/ ~r.pending[n].new THEN {r}
     ELSE LET e    == [r.pending[n] EXCEPT !.new = FALSE]
              old  == SubSeq(r.pending, 1, n - 1)
              bars == {i \in 1..(n - 1) : old[i].delay <= e.delay}
              from == IF bars = {} THEN 1
                      ELSE 1 + CHOOSE i \in bars : \A j \in bars : j <= i
          IN {[r EXCEPT !.pending = InsertAt(old, k, e)] : k \in from..n}

Init ==
  /\ room = createRoom
  /\ issued = 0
  /\ sent = 0
  /\ quiet = FALSE

\* ------------------------------------------------------- phase functions
gotoCivSelect(r) ==
  startTimer([r EXCEPT !.phase = "civ_select"], "civ", <<>>, Nil)

IndexOf(s, x) == CHOOSE i \in 1..Len(s) : s[i] = x

\* the civ_select deadline callback before it calls gotoRoundStart: every
\* player without a civilization gets available[ai++ % available.length],
\* or civilizations[0] when nothing is available
autoCiv(r) ==
  LET taken     == {r.civ[p] : p \in Range(r.players)} \ {0}
      available == SelectSeq([i \in 1..NCiv |-> i], LAMBDA c : c \notin taken)
      unchosen  == SelectSeq(r.players, LAMBDA p : r.civ[p] = 0)
      pick(p)   == IF Len(available) = 0 THEN 1
                   ELSE available[((IndexOf(unchosen, p) - 1) % Len(available)) + 1]
  IN [r EXCEPT !.civ = [p \in AllIds |->
                          IF p \in Range(unchosen) THEN pick(p) ELSE r.civ[p]]]

gotoRoundStart(r, ord) ==
  setTimeout([r EXCEPT !.round = @ + 1,
                       !.ratings = EmptyMap,
                       !.roundScores = [k \in Keys |-> 0],
                       !.attackOrder = ord,
                       !.currentAttackerIdx = 0,
                       !.nRatingTally = 0],
             "gotoAttackPrep", D2500)

gotoRating(r) ==
  startTimer([r EXCEPT !.phase = "rating"], "rating", <<>>, Nil)

\* the while loop of gotoAttackPrep: first index from idx on that is past
\* the order or names a player still in the roster
skipDisconnected(r) ==
  LET n   == Len(r.attackOrder)
      idx == r.currentAttackerIdx
  IN CHOOSE i \in idx..Max(n, idx) :
       /\ i >= n \/ r.attackOrder[i + 1] \in Range(r.players)
       /\ \A j \in idx..(i - 1) :
            j < n /\ r.attackOrder[j + 1] \notin Range(r.players)

gotoAttackPrep(r) ==
  LET i  == skipDisconnected(r)
      r1 == [r EXCEPT !.currentAttackerIdx = i]
  IN IF i >= Len(r.attackOrder) THEN gotoRating(r1)
     ELSE LET attackerId == r.attackOrder[i + 1]
              targets    == Remove(r.players, attackerId)
          IN startTimer([r1 EXCEPT !.phase = "attack_prep",
                                   !.currentAttack =
                                      [attackerId |-> attackerId,
                                       defenderId |-> Nil,
                                       factId |-> Nil,
                                       fallacyId |-> Nil],
                                   !.nCancelTally = 0],
                        "attack", targets, Nil)

advanceAttack(r) ==
  setTimeout([r EXCEPT !.currentAttackerIdx = @ + 1], "gotoAttackPrep", D2000)

gotoDefense(r) ==
  LET r1 == [r EXCEPT !.phase = "defense",
                      !.defenseChoice = Nil,
                      !.cancelVotes = EmptyMap]
  IN IF \/ r.currentAttack.attackerId \notin Range(r.players)
        \/ r.currentAttack.defenderId \notin Range(r.players)
     THEN advanceAttack(r1)
     ELSE startTimer(r1, "defense", <<>>, r.currentAttack.defenderId)

\* default resolution of an attack: first target, first fact, first card
autoTarget(r, targets) ==
  IF r.currentAttack.defenderId = Nil /\ Len(targets) > 0
  THEN [r EXCEPT !.currentAttack.defenderId = targets[1],
                 !.currentAttack.factId = "first",
                 !.currentAttack.fallacyId = "first"]
  ELSE r

\* the attack_prep deadline callback (targets is the closure's list)
attackTimeout(r, targets) == gotoDefense(autoTarget(r, targets))

\* variant of defenseTimeout: the silence is recorded and nothing is scheduled
defenseTimeoutStalls(r, defenderId) ==
  IF r.defenseChoice = Nil
  THEN [r EXCEPT !.defenseChoice = "silence",
                 !.roundScores[defenderId] = @ - 1]
  ELSE r

\* the defense deadline callback (defenderId is the closure's constant)
defenseTimeout(r, defenderId) ==
  IF r.defenseChoice = Nil
  THEN setTimeout([r EXCEPT !.defenseChoice = "silence",
                            !.roundScores[defenderId] = @ - 1],
                  "advanceAttack", D2000)
  ELSE r

gotoCancelVote(r) ==
  startTimer([r EXCEPT !.phase = "cancel_vote"], "cancel", <<>>, Nil)

cancelCount(r) ==
  Cardinality({v \in DOMAIN r.cancelVotes : r.cancelVotes[v] = "cancel"})

\* variant of totalVoters: the attacker is taken out of the count as well
totalVotersLessAttacker(r) == Len(r.players) - 2

totalVoters(r) == Len(r.players) - 1

\* cancelCount > totalVoters / 2
cancelled(r) == 2 * cancelCount(r) > totalVoters(r)

tallyCancel(r) ==
  LET d   == r.currentAttack.defenderId
      a   == r.currentAttack.attackerId
      rs1 == IF cancelled(r)
             THEN [r.roundScores EXCEPT ![d] = @ - 4]
             ELSE [[r.roundScores EXCEPT ![d] = @ + 3] EXCEPT ![a] = @ + 2]
  IN setTimeout([r EXCEPT !.roundScores = rs1, !.nCancelTally = @ + 1],
                "advanceAttack", D3000)

\* variant of topCount: three entries count whatever the roster
topCountThree(n) == 3

topCount(n) == IF n >= 6 THEN 3 ELSE IF n >= 4 THEN 2 ELSE 1

\* pts[i] || 1, for the 1-based rank i
pts(i) == IF i = 1 THEN 5 ELSE IF i = 2 THEN 3 ELSE 1

RECURSIVE SumPts(_)
SumPts(S) ==
  IF S = {} THEN 0
  ELSE LET x == CHOOSE y \in S : TRUE IN pts(x[2]) + SumPts(S \ {x})

\* points the ballots give to key k: the first topCount entries count
ratingGain(r, k) ==
  LET K == topCount(Len(r.players))
  IN SumPts({vi \in (DOMAIN r.ratings) \X (1..3) :
               /\ vi[2] <= K
               /\ vi[2] <= Len(r.ratings[vi[1]])
               /\ r.ratings[vi[1]][vi[2]] = k})

tallyRatings(r) ==
  LET rs1 == [k \in Keys |-> r.roundScores[k] + ratingGain(r, k)]
  IN setTimeout([r EXCEPT !.roundScores = rs1,
                          !.score = [p \in AllIds |->
                                       IF p \in Range(r.players)
                                       THEN r.score[p] + rs1[p]
                                       ELSE r.score[p]],
                          !.nRatingTally = @ + 1],
                "gotoMap", D3000)

\* ------------------------------------------------------------- hex map
\* A board is its grid width and the owner of every cell; the cell of row
\* r and column c has id r * GRID + c.
hexNeighborOffsets(row) ==
  IF row % 2 = 0
  THEN << <<-1, -1>>, <<-1, 0>>, <<0, -1>>, <<0, 1>>, <<1, -1>>, <<1, 0>> >>
  ELSE << <<-1, 0>>, <<-1, 1>>, <<0, -1>>, <<0, 1>>, <<1, 0>>, <<1, 1>> >>

Abs(x) == IF x >= 0 THEN x ELSE -x

\* toCube of hexDistance: x = c - (r - (r & 1)) / 2
CubeX(r, c) == c - ((r - (r % 2)) \div 2)

hexDistance(r1, c1, r2, c2) ==
  LET ax == CubeX(r1, c1)
      bx == CubeX(r2, c2)
  IN Max(Max(Abs(ax - bx), Abs((-ax - r1) - (-bx - r2))), Abs(r1 - r2))

RADIUS(n) == IF n <= 3 THEN 5 ELSE IF n <= 5 THEN 6 ELSE 7

\* the cells of the board of radius R: { id: r * GRID + c } within R of
\* the centre
CellsOf(R) ==
  LET GRID == R * 2 + 1
  IN {id \in {r * GRID + c : r \in 0..(GRID - 1), c \in 0..(GRID - 1)} :
        hexDistance(id \div GRID, id % GRID, R, R) <= R}

\* the cells next to each cell of the board of grid width GRID, in the
\* order of hexNeighborOffsets; a neighbour off the board is left out
neighboursOf ==
  [GRID \in {RADIUS(n) * 2 + 1 : n \in 0..MaxPlayers} |->
     LET cells == CellsOf(GRID \div 2)
     IN [id \in cells |->
           LET row  == id \div GRID
               col  == id % GRID
               offs == hexNeighborOffsets(row)
               at(i) == IF /\ row + offs[i][1] >= 0 /\ row + offs[i][1] < GRID
                           /\ col + offs[i][2] >= 0 /\ col + offs[i][2] < GRID
                           /\ ((row + offs[i][1]) * GRID + col + offs[i][2])
                                \in cells
                        THEN (row + offs[i][1]) * GRID + col + offs[i][2]
                        ELSE NoCell
           IN SelectSeq([i \in 1..6 |-> at(i)], LAMBDA c : c # NoCell)]]

Neighbours(map, id) == neighboursOf[map.grid][id]

\* the edge cell whose atan2 angle is nearest to 2*PI*i/n - PI/2, for the
\* i-th of n players (computed with the source's arithmetic)
bestEdge ==
  << <<5>>,
     <<5, 115>>,
     <<5, 86, 78>>,
     <<6, 90, 162, 78>>,
     <<6, 63, 152, 145, 65>>,
     <<7, 73, 163, 217, 152, 91>>,
     <<7, 57, 134, 220, 214, 121, 91>>,
     <<7, 42, 119, 192, 217, 183, 105, 91>> >>

\* the while loop of initMap: breadth-first growth of the cluster of the
\* i-th player; owner holds the player's place in playerIds, 0 for null
RECURSIVE growCluster(_, _, _, _, _, _)
growCluster(map, queue, visited, count, i, CLUSTER) ==
  IF queue = <<>> \/ count >= CLUSTER THEN map
  ELSE LET cur == Head(queue)
       IN IF map.owner[cur] # 0 /\ map.owner[cur] # i
          THEN growCluster(map, Tail(queue), visited, count, i, CLUSTER)
          ELSE LET m2   == [map EXCEPT !.owner[cur] = i]
                   R    == map.grid \div 2
                   dist(c) == hexDistance(c \div map.grid, c % map.grid, R, R)
                   nbs  == SelectSeq(Neighbours(map, cur),
                                     LAMBDA nb : /\ nb \notin visited
                                                 /\ m2.owner[nb] \in {0, i})
                   \* sort by dist, farthest first, ties in stored order
                   far  == SelectSeq(nbs, LAMBDA nb : dist(nb) > dist(cur))
                   same == SelectSeq(nbs, LAMBDA nb : dist(nb) = dist(cur))
                   near == SelectSeq(nbs, LAMBDA nb : dist(nb) < dist(cur))
                   add  == far \o same \o near
               IN growCluster(m2, Tail(queue) \o add, visited \cup Range(add),
                              count + 1, i, CLUSTER)

RECURSIVE placeClusters(_, _, _, _)
placeClusters(map, n, i, CLUSTER) ==
  IF i > n THEN map
  ELSE LET best == bestEdge[n][i]
       IN placeClusters(growCluster(map, <<best>>, {best}, 0, i, CLUSTER),
                        n, i + 1, CLUSTER)

\* initMap for every roster size, with the players named by their place
clustersOf ==
  [n \in 0..MaxPlayers |->
     LET R     == RADIUS(n)
         cells == CellsOf(R)
         edge  == {id \in cells :
                     hexDistance(id \div (R * 2 + 1), id % (R * 2 + 1), R, R) = R}
         CLUSTER == IF n = 0 THEN 0
                    ELSE Max(3, (Cardinality(edge) \div n) - 1)
     IN placeClusters([grid |-> R * 2 + 1, owner |-> [id \in cells |-> 0]],
                      n, 1, CLUSTER)]

initMap(playerIds) ==
  LET placed == clustersOf[Len(playerIds)]
  IN [grid  |-> placed.grid,
      owner |-> [id \in DOMAIN placed.owner |->
                   IF placed.owner[id] = 0 THEN Nil
                   ELSE playerIds[placed.owner[id]]]]

\* variant of isAdjacentHex: the offsets of an even row for every row
isAdjacentHexEvenRows(map, cellId, playerId) ==
  /\ cellId \in DOMAIN map.owner
  /\ map.owner[cellId] # playerId
  /\ \E nb \in DOMAIN map.owner :
       /\ (nb \div map.grid) - (cellId \div map.grid) \in {-1, 0, 1}
       /\ (nb % map.grid) - (cellId % map.grid) \in
            IF nb \div map.grid = cellId \div map.grid THEN {-1, 1} ELSE {-1, 0}
       /\ map.owner[nb] = playerId

isAdjacentHex(map, cellId, playerId) ==
  /\ cellId \in DOMAIN map.owner
  /\ map.owner[cellId] # playerId
  /\ \E nb \in Range(Neighbours(map, cellId)) : map.owner[nb] = playerId

\* variant of gotoMap: a board is generated at every entry
gotoMapAfresh(r) ==
  startTimer([r EXCEPT !.phase = "map", !.map = initMap(r.players)],
             "map", <<>>, Nil)

gotoMap(r) ==
  startTimer([r EXCEPT !.phase = "map",
                       !.map = IF @ = NoMap THEN initMap(r.players) ELSE @],
             "map", <<>>, Nil)

\* variant of captureFrom: the quota is not looked at
RECURSIVE captureFromUnmetered(_, _, _, _, _, _)
captureFromUnmetered(map, cellIds, i, used, points, playerId) ==
  IF i > Len(cellIds) THEN [map |-> map, used |-> used]
  ELSE IF ~isAdjacentHex(map, cellIds[i], playerId)
       THEN captureFromUnmetered(map, cellIds, i + 1, used, points, playerId)
  ELSE captureFromUnmetered([map EXCEPT !.owner[cellIds[i]] = playerId],
                            cellIds, i + 1, used + 1, points, playerId)

\* the forEach of applyCapture from request entry i on: the board and the
\* number of cells flipped
RECURSIVE captureFrom(_, _, _, _, _, _)
captureFrom(map, cellIds, i, used, points, playerId) ==
  IF i > Len(cellIds) THEN [map |-> map, used |-> used]
  ELSE IF used >= points
       THEN captureFrom(map, cellIds, i + 1, used, points, playerId)
  ELSE IF ~isAdjacentHex(map, cellIds[i], playerId)
       THEN captureFrom(map, cellIds, i + 1, used, points, playerId)
  ELSE captureFrom([map EXCEPT !.owner[cellIds[i]] = playerId],
                   cellIds, i + 1, used + 1, points, playerId)

applyCapture(r, playerId, cellIds) ==
  LET points == r.roundScores[playerId]
      done   == captureFrom(r.map, cellIds, 1, 0, points, playerId)
  IN [r EXCEPT !.map = done.map,
               !.roundScores[playerId] = points - done.used]

gotoRoundEnd(r) == [r EXCEPT !.phase = "round_end"]

\* ------------------------------------------------------ message handlers
\* A handler maps the room to the room it leaves and the message it sends
\* back to the sender ("none" when it sends nothing to the sender alone).
\* The reply is an output, not state: it is not kept in a variable.
Out(r, m) == [room |-> r, reply |-> m]

\* create_room, seen from the room registered under RoomCode; code is the
\* Math.random code the handler draws: rooms[code] = createRoom(code)
onCreateRoom(r, code) ==
  IF code = RoomCode THEN Out(createRoom, "room_created")
  ELSE Out(r, "room_created")

\* variant of onJoinRoom: the capacity test lets one player too many in
onJoinRoomOneMore(r, code, id) ==
  IF code # RoomCode THEN Out(r, "err_not_found")
  ELSE IF r.phase # "lobby" THEN Out(r, "err_in_progress")
  ELSE IF Len(r.players) > MaxPlayers THEN Out(r, "err_full")
  ELSE Out([r EXCEPT !.players = Append(@, id),
                     !.civ[id] = 0,
                     !.score[id] = 0],
           "joined")

\* join_room; id is the Math.random id the handler draws after its checks
onJoinRoom(r, code, id) ==
  IF code # RoomCode THEN Out(r, "err_not_found")
  ELSE IF r.phase # "lobby" THEN Out(r, "err_in_progress")
  ELSE IF Len(r.players) >= MaxPlayers THEN Out(r, "err_full")
  ELSE Out([r EXCEPT !.players = Append(@, id),
                     !.civ[id] = 0,
                     !.score[id] = 0],
           "joined")

\* variant of onStartGame: the roster size is not tested
onStartGameAnyRoster(r) == Out(gotoCivSelect(r), "none")

\* host: start_game
onStartGame(r) ==
  IF Len(r.players) < MinPlayers THEN Out(r, "err_min_players")
  ELSE Out(gotoCivSelect(r), "none")

\* host: next_phase; ord is the shuffle a round start would draw
onNextPhase(r, ord) ==
  LET r0 == clearTimeout(r)
      p  == r.phase
      d  == r.currentAttack.defenderId
  IN Out(CASE p = "civ_select"  -> gotoRoundStart(r0, ord)
           [] p = "attack_prep" ->
                gotoDefense(autoTarget(r0,
                              Remove(r0.players, r0.currentAttack.attackerId)))
           [] p = "defense"     ->
                setTimeout(IF r0.defenseChoice = Nil
                           THEN [r0 EXCEPT !.defenseChoice = "silence",
                                           !.roundScores[d] = @ - 1]
                           ELSE r0,
                           "advanceAttack", D500)
           [] p = "cancel_vote" -> tallyCancel(r0)
           [] p = "rating"      -> tallyRatings(r0)
           [] p = "map"         -> gotoRoundEnd(r0)
           [] p = "round_end"   -> gotoRoundStart(r0, ord)
           [] OTHER             -> r0,
         "none")

\* player: choose_civ; c = 0 stands for an id the catalog does not have
onChooseCiv(r, pid, c, ord) ==
  IF r.phase # "civ_select" THEN Out(r, "none")
  ELSE IF c \notin Civs THEN Out(r, "none")
  ELSE IF \E q \in Range(r.players) : q # pid /\ r.civ[q] = c
       THEN Out(r, "err_civ_taken")
  ELSE LET r1 == [r EXCEPT !.civ[pid] = c]
       IN IF \A q \in Range(r1.players) : r1.civ[q] # 0
          THEN Out(gotoRoundStart(clearTimeout(r1), ord), "civ_chosen")
          ELSE Out(r1, "civ_chosen")

\* player: choose_attack
onChooseAttack(r, pid, defenderId, factId, fallacyId) ==
  IF r.phase # "attack_prep" THEN Out(r, "none")
  ELSE IF r.currentAttack.attackerId # pid THEN Out(r, "none")
  ELSE Out(gotoDefense(clearTimeout(
             [r EXCEPT !.currentAttack.defenderId = defenderId,
                       !.currentAttack.factId = factId,
                       !.currentAttack.fallacyId = fallacyId])),
           "none")

\* variant of onDefenseChoice: the deadline is left armed
onDefenseChoiceKeepsTimer(r, pid, choice) ==
  IF r.phase # "defense" THEN Out(r, "none")
  ELSE IF r.currentAttack.defenderId # pid \/ r.defenseChoice # Nil
       THEN Out(r, "none")
  ELSE LET r1 == [r EXCEPT !.defenseChoice = choice]
       IN IF choice = "silence"
          THEN Out(setTimeout([r1 EXCEPT !.roundScores[pid] = @ - 1],
                              "advanceAttack", D2000), "none")
          ELSE Out(setTimeout(r1, "gotoCancelVote", D1500), "none")

\* player: defense_choice
onDefenseChoice(r, pid, choice) ==
  IF r.phase # "defense" THEN Out(r, "none")
  ELSE IF r.currentAttack.defenderId # pid \/ r.defenseChoice # Nil
       THEN Out(r, "none")
  ELSE LET r1 == clearTimeout([r EXCEPT !.defenseChoice = choice])
       IN IF choice = "silence"
          THEN Out(setTimeout([r1 EXCEPT !.roundScores[pid] = @ - 1],
                              "advanceAttack", D2000), "none")
          ELSE Out(setTimeout(r1, "gotoCancelVote", D1500), "none")

Put(f, k, v) == [x \in (DOMAIN f) \cup {k} |-> IF x = k THEN v ELSE f[x]]

\* if (room.cancelVotes[pid]): a recorded vote that is not falsy
Truthy(v) == v # Nil

\* variant of onCancelVote: the sender is not compared with the defender
onCancelVoteAnySender(r, pid, vote) ==
  IF r.phase # "cancel_vote" THEN Out(r, "none")
  ELSE IF pid \in DOMAIN r.cancelVotes /\ Truthy(r.cancelVotes[pid])
       THEN Out(r, "none")
  ELSE LET r1 == [r EXCEPT !.cancelVotes = Put(@, pid, vote)]
       IN IF Cardinality(DOMAIN r1.cancelVotes) >= Len(r1.players) - 1
          THEN Out(tallyCancel(clearTimeout(r1)), "none")
          ELSE Out(r1, "none")

\* player: cancel_vote
onCancelVote(r, pid, vote) ==
  IF r.phase # "cancel_vote" THEN Out(r, "none")
  ELSE IF pid = r.currentAttack.defenderId THEN Out(r, "none")
  ELSE IF pid \in DOMAIN r.cancelVotes /\ Truthy(r.cancelVotes[pid])
       THEN Out(r, "none")
  ELSE LET r1 == [r EXCEPT !.cancelVotes = Put(@, pid, vote)]
       IN IF Cardinality(DOMAIN r1.cancelVotes) >= Len(r1.players) - 1
          THEN Out(tallyCancel(clearTimeout(r1)), "none")
          ELSE Out(r1, "none")

\* player: submit_rating
onSubmitRating(r, pid, ranked) ==
  IF r.phase # "rating" THEN Out(r, "none")
  ELSE IF pid \in DOMAIN r.ratings THEN Out(r, "none")  \* ballots are arrays
  ELSE LET r1 == [r EXCEPT !.ratings = Put(@, pid, ranked)]
       IN IF Cardinality(DOMAIN r1.ratings) >= Len(r1.players)
          THEN Out(tallyRatings(clearTimeout(r1)), "none")
          ELSE Out(r1, "none")

\* player: capture
onCapture(r, pid, cellIds) ==
  IF r.phase # "map" THEN Out(r, "none")
  ELSE Out(applyCapture(r, pid, cellIds), "none")

\* ws close of a player connection: delete room.players[id]
onClose(r, pid) ==
  Out([r EXCEPT !.players = Remove(@, pid),
                !.civ[pid] = 0,
                !.score[pid] = 0],
      "none")

\* ------------------------------------------------------------ input sets
\* ids drawn so far; a message can name any of them
Issued       == {IdSeq[i] : i \in 1..issued}
Ballots      == {<<>>} \cup {<<p>> : p \in Issued}
Votes        == {"cancel", "ok", Nil}   \* Nil: a message without a vote
Choices      == {"speak", "silence"}
AttackPicks  == {"other"}              \* the default resolution picks "first"

\* least element of a non-empty set of cell ids
MinCell(S) == CHOOSE c \in S : \A d \in S : c <= d

\* cells a capture request of pid may name: the first cell it can take
\* (near), a cell it can take only after that one (behind), a cell of its
\* own, a cell of another player, and an id that is no cell
Probes(map, pid) ==
  LET cells    == DOMAIN map.owner
      frontier == {c \in cells : isAdjacentHex(map, c, pid)}
      least(S) == IF S = {} THEN NoCell ELSE MinCell(S)
      near     == least(frontier)
      behind   == IF near = NoCell THEN NoCell
                  ELSE least({c \in Range(Neighbours(map, near)) \ frontier :
                                map.owner[c] # pid})
      own      == least({c \in cells : map.owner[c] = pid})
      foe      == least({c \in cells : map.owner[c] \notin {Nil, pid}})
  IN [near |-> near, behind |-> behind, own |-> own, foe |-> foe]

\* msg.cellIds in the game: a cell to take, two cells in either order, a
\* cell named twice, cells that cannot be taken
CaptureRequests(map, pid) ==
  LET P == Probes(map, pid)
  IN { <<P.near>>, <<P.near, P.behind>>, <<P.behind, P.near>>,
       <<P.near, P.near>>, <<P.own, P.foe>>, <<NoCell>> }

\* msg.cellIds on the board alone: one or two of the cells above
ProbeRequests(map, pid) ==
  LET P == Probes(map, pid)
      S == {P.near, P.behind, P.own, P.foe, NoCell}
  IN {<<c>> : c \in S} \cup {<<c, d>> : c \in S, d \in S}

\* the step of a message whose handler returned o; a message that leaves
\* the room as it is leaves the model's state as it is
Deliver(o) ==
  /\ ~quiet
  /\ IF o.room = room THEN UNCHANGED <<room, sent>>
     ELSE /\ IF room.phase = "lobby" THEN TRUE ELSE sent < MaxMsgs
          /\ room' \in Settle(o.room)
          /\ sent' = IF room.phase = "lobby" THEN sent ELSE sent + 1
  /\ issued' = IF o.reply = "joined" THEN issued + 1 ELSE issued
  /\ UNCHANGED quiet

Connected == Range(room.players)

\* the shuffles a step may draw: only a round start draws one
Orders(starts) == IF starts THEN shuffle(room.players) ELSE {<<>>}

\* ---------------------------------------------------------------- actions
\* The ids of a run are random strings, told apart only by equality: the
\* k-th id drawn is named IdSeq[k].
JoinRoomOf(n) ==
  \E code \in Codes :
    /\ issued < n
    /\ Deliver(onJoinRoom(room, code, IdSeq[issued + 1]))

JoinRoom == JoinRoomOf(NumIds)

StartGame == Deliver(onStartGame(room))

NextPhase ==
  \E ord \in Orders(room.phase \in {"civ_select", "round_end"}) :
    Deliver(onNextPhase(room, ord))

ChooseCiv ==
  \E pid \in Connected, c \in Civs \cup {0},
     ord \in Orders(room.phase = "civ_select") :
    Deliver(onChooseCiv(room, pid, c, ord))

ChooseAttack ==
  \E pid \in Connected, d \in Issued \cup {Nil}, f \in AttackPicks :
    Deliver(onChooseAttack(room, pid, d, f, f))

DefenseChoice ==
  \E pid \in Connected, ch \in Choices :
    Deliver(onDefenseChoice(room, pid, ch))

CancelVote ==
  \E pid \in Connected, v \in Votes : Deliver(onCancelVote(room, pid, v))

SubmitRating ==
  \E pid \in Connected, b \in Ballots : Deliver(onSubmitRating(room, pid, b))

Capture ==
  \E pid \in Connected :
    \E cellIds \in IF room.phase = "map" THEN CaptureRequests(room.map, pid)
                   ELSE {<<NoCell>>} :      \* ignored whatever it names
      Deliver(onCapture(room, pid, cellIds))

Close ==
  \E pid \in Connected :
    /\ room' = onClose(room, pid).room
    /\ UNCHANGED <<issued, sent, quiet>>

\* the callback of a delayed transition
runDelayed(r, kind) ==
  CASE kind = "gotoAttackPrep" -> gotoAttackPrep(r)
    [] kind = "advanceAttack"  -> advanceAttack(r)
    [] kind = "gotoCancelVote" -> gotoCancelVote(r)
    [] kind = "gotoMap"        -> gotoMap(r)

\* the delayed transition that is due first runs
FireDelayed ==
  /\ room.pending # <<>>
  /\ room' \in Settle(runDelayed([room EXCEPT !.pending = Tail(@)],
                                  Head(room.pending).kind))
  /\ UNCHANGED <<issued, sent, quiet>>

\* the callback of the room deadline
runDeadline(r, tm, ord) ==
  CASE tm.kind = "civ"     -> gotoRoundStart(autoCiv(r), ord)
    [] tm.kind = "attack"  -> attackTimeout(r, tm.targets)
    [] tm.kind = "defense" -> defenseTimeout(r, tm.defenderId)
    [] tm.kind = "cancel"  -> tallyCancel(r)
    [] tm.kind = "rating"  -> tallyRatings(r)
    [] tm.kind = "map"     -> gotoRoundEnd(r)

\* the armed deadline expires
Expire ==
  /\ room.timer.kind # "none"
  /\ room.pending = <<>>
  /\ \E ord \in Orders(room.timer.kind = "civ") :
       room' \in Settle(runDeadline(clearTimeout(room), room.timer, ord))
  /\ UNCHANGED <<issued, sent, quiet>>

\* ------------------------------------------------------------ the game
Next ==
  \/ JoinRoom \/ StartGame \/ NextPhase
  \/ ChooseCiv \/ ChooseAttack \/ DefenseChoice
  \/ CancelVote \/ SubmitRating \/ Capture
  \/ Close
  \/ FireDelayed \/ Expire

Spec == Init /\ [][Next]_vars

\* ------------------------------------------------------------ the lobby
\* Joins, departures and start_game, with enough ids to fill the room.
JoinLobby == JoinRoomOf(LobbyIds)

StartLobby == StartGame

CloseLobby == Close

NextLobby == JoinLobby \/ StartLobby \/ CloseLobby

SpecLobby == Init /\ [][NextLobby]_vars

\* ------------------------------------------------- the three-player game
\* Three ids; the only player messages are defense_choice and cancel_vote,
\* every other decision is left to the deadlines.
JoinTrio == JoinRoomOf(TrioIds)

StartTrio == StartGame

DefenseTrio == DefenseChoice

VoteTrio == CancelVote

HostTrio == NextPhase /\ room.phase = "cancel_vote"

CloseTrio == Close

DelayedTrio == FireDelayed

ExpireTrio == Expire

NextTrio ==
  \/ JoinTrio \/ StartTrio \/ DefenseTrio \/ VoteTrio \/ HostTrio
  \/ CloseTrio \/ DelayedTrio \/ ExpireTrio

SpecTrio == Init /\ [][NextTrio]_vars

\* ------------------------------------------- the game that falls silent
\* The game of Spec with fewer messages; at some point after the start
\* the host and the players stop sending.  Timers keep firing.
QuietMessage ==
  /\ sent < QuietMsgs
  /\ \/ JoinRoom \/ StartGame \/ NextPhase
     \/ ChooseCiv \/ ChooseAttack \/ DefenseChoice
     \/ CancelVote \/ SubmitRating \/ Capture

GoQuiet ==
  /\ ~quiet
  /\ room.phase # "lobby"
  /\ quiet' = TRUE
  /\ UNCHANGED <<room, issued, sent>>

CloseQuiet == Close

DelayedQuiet == FireDelayed

ExpireQuiet == Expire

NextQuiet ==
  \/ QuietMessage \/ GoQuiet \/ CloseQuiet \/ DelayedQuiet \/ ExpireQuiet

SpecQuiet ==
  /\ Init
  /\ [][NextQuiet]_vars
  /\ WF_vars(FireDelayed)
  /\ WF_vars(Expire)

\* ------------------------------------------------------ the rating tally
\* A round of n players played by the deadlines alone (every attack on the
\* first target, every defense silent), taken up where rating begins; the
\* players then send ballots, one of them may leave, and the deadline may lapse.
NoPending(r) == [r EXCEPT !.pending = <<>>]

RECURSIVE silentRound(_)
silentRound(r) ==
  LET a == gotoAttackPrep(r)
  IN IF a.phase = "rating" THEN a
     ELSE LET d == attackTimeout(clearTimeout(a), a.timer.targets)
              s == defenseTimeout(clearTimeout(d), d.timer.defenderId)
          IN silentRound(NoPending(advanceAttack(NoPending(s))))

TallyRoom(n) ==
  LET joined == [createRoom EXCEPT !.players = SubSeq(IdSeq, 1, n)]
      chosen == autoCiv(clearTimeout(gotoCivSelect(joined)))
  IN silentRound(NoPending(gotoRoundStart(chosen, chosen.players)))

InitTally ==
  /\ \E n \in MinPlayers..TallyIds : room = TallyRoom(n) /\ issued = n
  /\ sent = 0
  /\ quiet = FALSE

\* the ranking of the 6-player example cut to the ids in use, and a ballot
\* that names one player three times
TallyBallots ==
  { SelectSeq(<<"p2", "p5", "p1", "p4", "p3", "p6">>, LAMBDA p : p \in Issued),
    <<"p1", "p1", "p1">> }

SubmitTally ==
  \E pid \in Connected, b \in TallyBallots :
    /\ room' \in Settle(onSubmitRating(room, pid, b).room)
    /\ UNCHANGED <<issued, sent, quiet>>

\* at most one player leaves while the ballots come in
CloseTally == Close /\ room.phase = "rating" /\ Len(room.players) = issued

DelayedTally == FireDelayed

ExpireTally == Expire

NextTally == SubmitTally \/ CloseTally \/ DelayedTally \/ ExpireTally

SpecTally == InitTally /\ [][NextTally]_vars

\* --------------------------------------------------------- the map phase
\* The round of TallyRoom, rated by one ballot of p1 that ranks w first and
\* tallied by the deadline, taken up where the map phase begins; the
\* players then send capture requests or leave, until the deadline.
MapRoom(n, w) ==
  LET rated == [TallyRoom(n) EXCEPT !.ratings = Put(@, IdSeq[1], <<w>>)]
  IN gotoMap(NoPending(tallyRatings(clearTimeout(rated))))

InitMap ==
  /\ \E n \in MinPlayers..MapIds :
       /\ issued = n
       /\ \E w \in {IdSeq[i] : i \in 1..n} : room = MapRoom(n, w)
  /\ sent = 0
  /\ quiet = FALSE

CaptureMap ==
  \E pid \in Connected :
    \E cellIds \in ProbeRequests(room.map, pid) :
      /\ room' = onCapture(room, pid, cellIds).room
      /\ UNCHANGED <<issued, sent, quiet>>

CloseMap == Close /\ room.phase = "map"

ExpireMap == Expire

NextMap == CaptureMap \/ CloseMap \/ ExpireMap

SpecMap == InitMap /\ [][NextMap]_vars

\* ---------------------------------------------------------- the registry
\* The lobby of the room under RoomCode while other connections create
\* rooms of their own.
CreateRoom == \E code \in Codes : Deliver(onCreateRoom(room, code))

JoinRegistry == JoinRoomOf(LobbyIds)

StartRegistry == StartGame

CloseRegistry == Close

NextRegistry == CreateRoom \/ JoinRegistry \/ StartRegistry \/ CloseRegistry

SpecRegistry == Init /\ [][NextRegistry]_vars

TypeOK ==
  /\ room.phase \in PHASES
  /\ Range(room.players) \subseteq Issued
  /\ Len(room.players) = Cardinality(Range(room.players))
  /\ sent \in 0..MaxMsgs
  /\ quiet \in BOOLEAN

\* ================================================================ claims
Kinds(q) == [i \in 1..Len(q) |-> q[i].kind]

\* ---------------------------------------------------------------- C1
\* what the expiry of the deadline armed in r must have made of it (r2):
\* the phase's default resolution, and exactly one continuation
DefaultResolution(r, r2) ==
  LET k == r.timer.kind
      d == r.currentAttack.defenderId
  IN CASE k = "civ" ->
            /\ \A p \in Range(r.players) :
                 /\ r2.civ[p] \in Civs
                 /\ r.civ[p] # 0 => r2.civ[p] = r.civ[p]
            /\ r2.round = r.round + 1
            /\ r2.timer = NoTimer
            /\ Kinds(r2.pending) = <<"gotoAttackPrep">>
       [] k = "attack" ->
            /\ r2.phase = "defense"
            /\ r2.currentAttack.attackerId = r.currentAttack.attackerId
            /\ IF d = Nil /\ Len(r.timer.targets) > 0
               THEN /\ r2.currentAttack.defenderId = r.timer.targets[1]
                    /\ r2.currentAttack.factId = "first"
                    /\ r2.currentAttack.fallacyId = "first"
               ELSE r2.currentAttack = r.currentAttack
            /\ IF r2.timer = NoTimer
               THEN /\ Kinds(r2.pending) = <<"gotoAttackPrep">>
                    /\ r2.currentAttackerIdx = r.currentAttackerIdx + 1
               ELSE /\ r2.timer.kind = "defense"
                    /\ r2.pending = <<>>
                    /\ r2.currentAttackerIdx = r.currentAttackerIdx
       [] k = "defense" ->
            /\ r2.phase = "defense"
            /\ r2.defenseChoice = "silence"
            /\ r2.roundScores = [r.roundScores EXCEPT ![d] = @ - 1]
            /\ r2.timer = NoTimer
            /\ Kinds(r2.pending) = <<"advanceAttack">>
       [] k = "cancel" ->
            /\ r2.nCancelTally = r.nCancelTally + 1
            /\ r2.timer = NoTimer
            /\ Kinds(r2.pending) = <<"advanceAttack">>
       [] k = "rating" ->
            /\ r2.nRatingTally = r.nRatingTally + 1
            /\ r2.timer = NoTimer
            /\ Kinds(r2.pending) = <<"gotoMap">>
       [] k = "map" ->
            /\ r2.phase = "round_end"
            /\ r2.timer = NoTimer
            /\ r2.pending = <<>>

\* C1: once the host and the players send nothing more, the expiry of the
\* armed deadline applies the phase's default resolution and leaves exactly
\* one continuation (a new deadline, one delayed transition, or round_end);
\* the room then reaches round_end, which is none of the deadline phases,
\* so it leaves every deadline phase it is in.
C1_NoStall ==
  /\ [][(quiet /\ room.timer.kind # "none" /\ room.pending = <<>>
               /\ room'.players = room.players)
          => DefaultResolution(room, room')]_vars
  /\ quiet ~> (room.phase = "round_end")

\* the round that no message took part in has run to its end
C1_Witness ==
  /\ quiet
  /\ sent = 0
  /\ room.phase = "round_end"
  /\ room.round = 1
  /\ Len(room.players) = 2
  /\ room.defenseChoice = "silence"
  /\ room.timer = NoTimer
  /\ room.pending = <<>>

\* ---------------------------------------------------------------- C2
\* C2: the round's points are added to the cumulative scores exactly once
\* per round.  In the first round every score starts at 0, so once
\* tallyRatings has run, and until the board exists (no capture has spent
\* points), each player's cumulative score is the round's points.
C2_ScoredOnce ==
  (room.round = 1 /\ room.map = NoMap /\ room.nRatingTally >= 1) =>
    \A p \in Connected : room.score[p] = room.roundScores[p]

\* ---------------------------------------------------------------- C3
PhaseOfTimer(k) ==
  CASE k = "civ"     -> "civ_select"
    [] k = "attack"  -> "attack_prep"
    [] k = "defense" -> "defense"
    [] k = "cancel"  -> "cancel_vote"
    [] k = "rating"  -> "rating"
    [] k = "map"     -> "map"

\* the armed deadline belongs to the phase the room is in, and to the
\* decision that is still open in it
TimerIsCurrent ==
  room.timer.kind # "none" =>
    /\ room.phase = PhaseOfTimer(room.timer.kind)
    /\ room.timer.kind = "attack" =>
         /\ room.currentAttack.defenderId = Nil
         /\ room.currentAttack.attackerId \notin Range(room.timer.targets)
    /\ room.timer.kind = "defense" =>
         /\ room.defenseChoice = Nil
         /\ room.timer.defenderId = room.currentAttack.defenderId

\* C3: a phase that ends on its early path (every civilization chosen, the
\* attacker's choice, the defender's choice, every cancel vote in, every
\* ballot in) leaves the phase's deadline disarmed, so its callback cannot
\* run afterwards; the deadline that is armed is always the one of the
\* current phase and of its open decision.
C3_EarlyCancels ==
  /\ TimerIsCurrent
  /\ \A pid \in Connected :
       /\ \A c \in Civs, ord \in Orders(room.phase = "civ_select") :
            LET o == onChooseCiv(room, pid, c, ord).room
            IN o.round # room.round => o.timer = NoTimer
       /\ \A d \in Issued \cup {Nil}, f \in AttackPicks :
            LET o == onChooseAttack(room, pid, d, f, f).room
            IN o # room => o.timer.kind \in {"none", "defense"}
       /\ \A ch \in Choices :
            LET o == onDefenseChoice(room, pid, ch).room
            IN o # room => o.timer = NoTimer
       /\ \A v \in Votes :
            LET o == onCancelVote(room, pid, v).room
            IN o.nCancelTally # room.nCancelTally => o.timer = NoTimer
       /\ \A b \in Ballots :
            LET o == onSubmitRating(room, pid, b).room
            IN o.nRatingTally # room.nRatingTally => o.timer = NoTimer

\* the defender has spoken before the deadline: no deadline is armed while
\* the move to the cancel vote is on its way
C3_Witness ==
  /\ room.phase = "defense"
  /\ room.defenseChoice = "speak"
  /\ room.timer = NoTimer
  /\ Kinds(room.pending) = <<"gotoCancelVote">>

\* ---------------------------------------------------------------- C4
Edges ==
  { <<"lobby", "civ_select">>,
    <<"civ_select", "attack_prep">>,
    <<"attack_prep", "defense">>,
    <<"defense", "cancel_vote">>,
    <<"defense", "attack_prep">>,
    <<"cancel_vote", "attack_prep">>,
    <<"defense", "rating">>,
    <<"cancel_vote", "rating">>,
    <<"civ_select", "rating">>,       \* an order with nobody left in it
    <<"round_end", "rating">>,
    <<"rating", "map">>,
    <<"map", "round_end">>,
    <<"round_end", "attack_prep">> }

\* C4: the phase changes only along the edges of the round's cycle.
C4_OnlyEdges ==
  [][room'.phase # room.phase => <<room.phase, room'.phase>> \in Edges]_vars

\* ---------------------------------------------------------------- C5
\* C5: start_game outside the lobby leaves the room as it is.
C5_StartOnlyInLobby ==
  room.phase # "lobby" => onStartGame(room).room = room

\* ---------------------------------------------------------------- C6
\* C6: a player message that does not match the phase or the sender's role
\* leaves the room unchanged: choose_civ outside civ_select, choose_attack
\* outside attack_prep or from another player than the attacker,
\* defense_choice outside defense or from another player than the
\* defender, cancel_vote outside cancel_vote or from the defender,
\* submit_rating outside rating, capture outside map.
C6_MismatchIgnored ==
  \A pid \in Connected :
    /\ room.phase # "civ_select" =>
         \A c \in Civs \cup {0} :
           onChooseCiv(room, pid, c, <<>>).room = room
    /\ (room.phase # "attack_prep" \/ pid # room.currentAttack.attackerId) =>
         \A d \in Issued \cup {Nil}, f \in AttackPicks :
           onChooseAttack(room, pid, d, f, f).room = room
    /\ (room.phase # "defense" \/ pid # room.currentAttack.defenderId) =>
         \A ch \in Choices : onDefenseChoice(room, pid, ch).room = room
    /\ (room.phase # "cancel_vote" \/ pid = room.currentAttack.defenderId) =>
         \A v \in Votes : onCancelVote(room, pid, v).room = room
    /\ room.phase # "rating" =>
         \A b \in Ballots : onSubmitRating(room, pid, b).room = room
    /\ room.phase # "map" =>
         \A cellIds \in CaptureRequests(room.map, pid) :
           onCapture(room, pid, cellIds).room = room

\* a cancel vote is open and its defender is connected, next to a player
\* who may vote
C6_Witness ==
  /\ room.phase = "cancel_vote"
  /\ room.timer.kind = "cancel"
  /\ room.currentAttack.defenderId \in Connected
  /\ room.currentAttack.attackerId \in Connected
  /\ room.cancelVotes = EmptyMap

\* ---------------------------------------------------------------- C7
JoinErrors == {"err_not_found", "err_in_progress", "err_full"}

JoinAnswers ==
  \A code \in Codes, id \in AllIds \ Issued :
    LET o == onJoinRoom(room, code, id)
        accepted == /\ code = RoomCode
                    /\ room.phase = "lobby"
                    /\ Len(room.players) < MaxPlayers
    IN IF accepted
       THEN /\ o.reply = "joined"
            /\ o.room = [room EXCEPT !.players = Append(@, id)]
       ELSE /\ o.reply \in JoinErrors
            /\ o.room = room

\* C7: join_room adds a player exactly when the code names the room, the
\* room is in the lobby and holds fewer than 8 players; otherwise the
\* sender gets an error and nothing changes.  The roster never exceeds 8
\* and never gains a player outside the lobby.
C7_JoinRule ==
  /\ [](JoinAnswers /\ Len(room.players) <= MaxPlayers)
  /\ [][Range(room'.players) \subseteq Range(room.players)
          \/ (/\ room.phase = "lobby"
              /\ Len(room.players) < MaxPlayers
              /\ Len(room'.players) = Len(room.players) + 1)]_vars

\* the room is full again after a player left and a ninth id joined
C7_Witness ==
  /\ room.phase = "lobby"
  /\ Len(room.players) = MaxPlayers
  /\ issued = MaxPlayers + 1

\* ---------------------------------------------------------------- C8
\* C8: start_game with fewer than 2 players is answered with an error and
\* changes nothing, so the lobby keeps round 0 and no deadline, and no game
\* has started before 2 players joined; with 2 or more players in the
\* lobby it moves the room to civ_select with its deadline armed.
C8_StartNeedsTwo ==
  LET o == onStartGame(room)
  IN /\ room.phase = "lobby" =>
          /\ room.round = 0
          /\ room.timer = NoTimer
          /\ room.pending = <<>>
     /\ room.phase # "lobby" => issued >= MinPlayers
     /\ Len(room.players) < MinPlayers =>
          /\ o.reply = "err_min_players"
          /\ o.room = room
     /\ (room.phase = "lobby" /\ Len(room.players) >= MinPlayers) =>
          /\ o.reply = "none"
          /\ o.room = [room EXCEPT !.phase = "civ_select",
                                   !.timer.kind = "civ",
                                   !.armed = 1]

\* the game has just been started with two players
C8_Witness ==
  /\ room.phase = "civ_select"
  /\ room.timer.kind = "civ"
  /\ room.round = 0
  /\ Len(room.players) = MinPlayers
  /\ sent = 0

\* ---------------------------------------------------------------- C9
\* a step in which tallyCancel ran
Tallied == room'.nCancelTally > room.nCancelTally

\* the defender lost 4 points in the step (a cancelled defense); a defense
\* that stands gives the defender 3
DefenderLost ==
  LET d == room.currentAttack.defenderId
  IN room'.roundScores[d] = room.roundScores[d] - 4

\* C9 as the specification words it: the defense is cancelled exactly when
\* the recorded cancel votes are more than half of the eligible voters, the
\* roster without attacker and defender; the defender never has a recorded
\* vote.
C9_MajorityOfOthers ==
  /\ [][Tallied =>
          (DefenderLost <=>
             2 * cancelCount(room') >
               Cardinality(Connected \ {room.currentAttack.attackerId,
                                        room.currentAttack.defenderId}))]_vars
  /\ [](room.phase = "cancel_vote" =>
          room.currentAttack.defenderId \notin DOMAIN room.cancelVotes)

\* C9, amended: the defense is cancelled exactly when the recorded cancel
\* votes are more than half of the roster size minus one (the roster
\* without the defender: the attacker votes like everyone else, and is
\* counted); the defender never has a recorded vote.
C9_MajorityOfNonDefenders ==
  /\ [][Tallied =>
          (DefenderLost <=>
             2 * cancelCount(room') > Len(room.players) - 1)]_vars
  /\ [](room.phase = "cancel_vote" =>
          room.currentAttack.defenderId \notin DOMAIN room.cancelVotes)

\* attacker and third player both voted cancel in a room of three, and the
\* defense was cancelled
C9_Witness ==
  /\ Len(room.players) = 3
  /\ room.nCancelTally = 1
  /\ room.currentAttack.attackerId \in DOMAIN room.cancelVotes
  /\ cancelCount(room) = 2
  /\ room.roundScores[room.currentAttack.defenderId] = -4

\* ---------------------------------------------------------------- C10
\* C10: the outcome of a cancel vote is applied exactly once: tallyCancel
\* runs at most once for a confrontation.
C10_OutcomeOnce == room.nCancelTally <= 1

\* ---------------------------------------------------------------- C11
\* attacker and defender of the current confrontation are in the roster
InRoster(r) ==
  /\ r.currentAttack.attackerId \in Range(r.players)
  /\ r.currentAttack.defenderId \in Range(r.players)

\* advanceAttack callbacks that are scheduled and have not run
PendingAdvances ==
  Cardinality({i \in 1..Len(room.pending) :
                 room.pending[i].kind = "advanceAttack"})

\* C11: a silent defense (deadline, explicit choice or host) costs the
\* defender exactly 1 point of roundScores, once; the room advances by one
\* entry of the attack order (the index and the scheduled advances never
\* pass the entry after the attacker's) and the confrontation never enters
\* cancel_vote.
C11_SilentDefense ==
  /\ [][(InRoster(room) /\ room.defenseChoice # "silence"
                        /\ room'.defenseChoice = "silence") =>
          room'.roundScores =
            [room.roundScores EXCEPT ![room.currentAttack.defenderId] = @ - 1]]_vars
  /\ [][(InRoster(room) /\ room.phase = "defense" /\ room'.phase = "defense"
                        /\ room.defenseChoice = "silence"
                        /\ room'.defenseChoice = "silence") =>
          room'.roundScores = room.roundScores]_vars
  /\ []((InRoster(room) /\ room.phase = "defense"
                        /\ room.defenseChoice = "silence") =>
          room.currentAttackerIdx + PendingAdvances
            <= IndexOf(room.attackOrder, room.currentAttack.attackerId))
  /\ []((InRoster(room) /\ room.phase = "cancel_vote") =>
          room.defenseChoice # "silence")

\* ---------------------------------------------------------------- C12
\* the step is the gotoAttackPrep callback beginning an attack turn
TurnBegins ==
  /\ room.pending # <<>>
  /\ Head(room.pending).kind = "gotoAttackPrep"
  /\ Len(room'.pending) = Len(room.pending) - 1
  /\ room'.phase = "attack_prep"

\* the player of entry j (0-based) of the attack order
Entry(j) == room.attackOrder[j + 1]

\* C12: within a round the index passes an entry of the attack order only
\* if its player has disconnected or the entry is the one whose turn is
\* being played; no entry gets a second turn; the room is in rating only
\* with the index past the last entry.
C12_OneTurnEach ==
  /\ [][(room'.round = room.round
           /\ room'.currentAttackerIdx > room.currentAttackerIdx) =>
          \A j \in room.currentAttackerIdx..(room'.currentAttackerIdx - 1) :
            j < Len(room.attackOrder) =>
              \/ Entry(j) \notin Connected
              \/ /\ j = room.currentAttackerIdx
                 /\ room.phase \in {"attack_prep", "defense", "cancel_vote"}
                 /\ room.currentAttack.attackerId = Entry(j)]_vars
  /\ [][TurnBegins =>
          ~(/\ room.phase \in {"attack_prep", "defense", "cancel_vote"}
            /\ room.currentAttack.attackerId = room'.currentAttack.attackerId)]_vars
  /\ [](room.phase = "rating" =>
          room.currentAttackerIdx >= Len(room.attackOrder))

\* ---------------------------------------------------------------- C13
\* what ballot b gives to key k when its first K entries count
Award(b, K, k) ==
  (IF K >= 1 /\ Len(b) >= 1 /\ b[1] = k THEN 5 ELSE 0)
  + (IF K >= 2 /\ Len(b) >= 2 /\ b[2] = k THEN 3 ELSE 0)
  + (IF K >= 3 /\ Len(b) >= 3 /\ b[3] = k THEN 1 ELSE 0)

RECURSIVE TotalAward(_, _, _, _)
TotalAward(voters, ballots, K, k) ==
  IF voters = {} THEN 0
  ELSE LET v == CHOOSE x \in voters : TRUE
       IN Award(ballots[v], K, k) + TotalAward(voters \ {v}, ballots, K, k)

CountedEntries(n) == IF n >= 6 THEN 3 ELSE IF n >= 4 THEN 2 ELSE 1

\* C13: a run of the rating tally adds to every roundScores entry exactly
\* what the submitted ballots give it: per ballot 5, 3 and 1 points to its
\* entries 1, 2 and 3 as far as they are among the first K, K = 3 for a
\* roster of at least 6, 2 for at least 4, else 1; nothing to later entries.
C13_TallyPoints ==
  [][room'.nRatingTally = room.nRatingTally + 1 =>
       \A k \in Keys :
         room'.roundScores[k] =
           room.roundScores[k]
             + TotalAward(DOMAIN room'.ratings, room'.ratings,
                          CountedEntries(Len(room'.players)), k)]_vars

\* the 6-player example: one ballot [p2, p5, p1, p4, p3, p6] was tallied
C13_Witness ==
  /\ room.nRatingTally = 1
  /\ Len(room.players) = 6
  /\ DOMAIN room.ratings = {"p3"}
  /\ room.ratings["p3"] = <<"p2", "p5", "p1", "p4", "p3", "p6">>
  /\ \A k \in AllIds :
       room.roundScores[k] - TallyRoom(6).roundScores[k] =
         IF k = "p2" THEN 5 ELSE IF k = "p5" THEN 3 ELSE IF k = "p1" THEN 1 ELSE 0

\* ---------------------------------------------------------------- C14
\* C14: a cancel_vote from a participant who already has a recorded vote
\* leaves the recorded votes as they are, and a submit_rating from a
\* participant who already has a recorded ballot leaves the recorded
\* ballots as they are.
C14_FirstStands ==
  /\ \A pid \in DOMAIN room.cancelVotes : \A v \in Votes :
       onCancelVote(room, pid, v).room.cancelVotes = room.cancelVotes
  /\ \A pid \in DOMAIN room.ratings : \A b \in Ballots :
       onSubmitRating(room, pid, b).room.ratings = room.ratings

\* ---------------------------------------------------------------- C15
\* hex neighbour relation: in the same row the columns differ by one; in
\* an adjoining row d's column is c's or the one before it when c's row
\* is even, c's or the one after it when c's row is odd
HexNext(map, c, d) ==
  LET dr == (d \div map.grid) - (c \div map.grid)
      dc == (d % map.grid) - (c % map.grid)
  IN \/ dr = 0 /\ dc \in {-1, 1}
     \/ dr \in {-1, 1} /\ dc \in (IF (c \div map.grid) % 2 = 0
                                  THEN {-1, 0} ELSE {0, 1})

\* cell c can be taken by pid on board map
Takeable(map, c, pid) ==
  /\ c \in DOMAIN map.owner
  /\ map.owner[c] # pid
  /\ \E d \in DOMAIN map.owner : HexNext(map, c, d) /\ map.owner[d] = pid

\* the board after cell c is processed for pid with left points of quota
Processed(map, c, pid, left) ==
  IF left > 0 /\ Takeable(map, c, pid)
  THEN [map EXCEPT !.owner[c] = pid] ELSE map

\* the quota left after cell c is processed
LeftAfter(map, c, pid, left) ==
  IF left > 0 /\ Takeable(map, c, pid) THEN left - 1 ELSE left

\* C15: a capture request of one or two cells, processed in the given
\* order, flips a cell to the sender iff at that moment the cell is next
\* to a cell of the sender, is not the sender's, and quota is left; every
\* other requested cell, and every cell not requested, keeps its owner.
C15_CaptureRule ==
  room.phase = "map" =>
    \A pid \in Connected :
      LET quota == Max(0, room.roundScores[pid])
      IN \A cellIds \in ProbeRequests(room.map, pid) :
           LET first == Processed(room.map, cellIds[1], pid, quota)
               left  == LeftAfter(room.map, cellIds[1], pid, quota)
           IN onCapture(room, pid, cellIds).room.map =
                IF Len(cellIds) = 1 THEN first
                ELSE Processed(first, cellIds[2], pid, left)

\* two players; one of them has taken two cells beyond its cluster of 14
C15_Witness ==
  /\ room.phase = "map"
  /\ issued = 2
  /\ \E pid \in Connected :
       Cardinality({c \in DOMAIN room.map.owner : room.map.owner[c] = pid}) >= 16

\* ---------------------------------------------------------------- C16
\* number of cells whose owner differs between boards m1 and m2
Flipped(m1, m2) ==
  Cardinality({c \in DOMAIN m1.owner : m1.owner[c] # m2.owner[c]})

\* C16 (as stated): with the quota of a player being the roundScores entry
\* clamped to at least 0, a capture request flips at most the quota held
\* before the call, and the entry stored back is not negative.
C16_QuotaNeverNegative ==
  room.phase = "map" =>
    \A pid \in Connected : \A cellIds \in ProbeRequests(room.map, pid) :
      LET after == onCapture(room, pid, cellIds).room
      IN /\ Flipped(room.map, after.map) <= Max(0, room.roundScores[pid])
         /\ after.roundScores[pid] >= 0

\* C16 (amended): a capture request flips at most the quota held before
\* the call, and the entry stored back is the entry before the call less
\* the number of cells flipped: not negative if it was not negative
\* before, and unchanged, with nothing flipped, if it was negative.
C16_QuotaSpent ==
  room.phase = "map" =>
    \A pid \in Connected : \A cellIds \in ProbeRequests(room.map, pid) :
      LET after == onCapture(room, pid, cellIds).room
          n     == Flipped(room.map, after.map)
      IN /\ n <= Max(0, room.roundScores[pid])
         /\ after.roundScores[pid] = room.roundScores[pid] - n
         /\ room.roundScores[pid] >= 0 => after.roundScores[pid] >= 0
         /\ room.roundScores[pid] < 0 => after = room

\* two players: one has spent its whole quota of 4 on captures, the other
\* holds a negative entry
C16_Witness ==
  /\ room.phase = "map"
  /\ issued = 2
  /\ \E pid \in Connected, q \in Connected :
       /\ room.roundScores[pid] = 0
       /\ Cardinality({c \in DOMAIN room.map.owner : room.map.owner[c] = pid}) = 18
       /\ room.roundScores[q] < 0

\* ---------------------------------------------------------------- C17
\* the step is a capture message handled in the map phase
CaptureStep ==
  /\ room.phase = "map"
  /\ \E pid \in Connected : \E cellIds \in CaptureRequests(room.map, pid) :
       room' = onCapture(room, pid, cellIds).room

\* C17: the board is generated on the step that first enters the map
\* phase, and only there; once generated its cells stay the same for good,
\* and the owner of a cell changes only on the step of a capture message
\* handled while the phase is map.
C17_BoardFrame ==
  /\ [][(room.map = NoMap /\ room'.map # NoMap) =>
          (room.phase # "map" /\ room'.phase = "map")]_vars
  /\ [](room.phase = "map" => room.map # NoMap)
  /\ [][room.map # NoMap =>
          /\ room'.map.grid = room.map.grid
          /\ DOMAIN room'.map.owner = DOMAIN room.map.owner
          /\ (room'.map.owner # room.map.owner => CaptureStep)]_vars

\* the map phase of round 2, on a board that a capture has changed
C17_Witness ==
  /\ room.round = 2
  /\ room.phase = "map"
  /\ Len(room.players) = 2
  /\ \E pid \in Connected :
       Cardinality({c \in DOMAIN room.map.owner : room.map.owner[c] = pid}) >= 15

\* ---------------------------------------------------------------- C18
\* a round start whose attack sequence has not begun yet: its
\* gotoAttackPrep callback (the only one with this delay) is pending
RoundStartPending(r) ==
  \E i \in 1..Len(r.pending) :
    r.pending[i].kind = "gotoAttackPrep" /\ r.pending[i].delay = D2500

\* C18: round never decreases; a step changes it by one at most, and only
\* in civ_select or round_end (no transition between the sub-phases of a
\* round changes it); and it grows once per passage into an attack
\* sequence: not again while the attack sequence of the last growth has
\* yet to begin.
C18_RoundGrowth ==
  /\ [][room'.round \in {room.round, room.round + 1}]_vars
  /\ [][room'.round # room.round =>
          room.phase \in {"civ_select", "round_end"}]_vars
  /\ [][room'.round # room.round => ~RoundStartPending(room)]_vars

\* ---------------------------------------------------------------- C19
\* C19: once the rating tally of a round has applied the round's scores,
\* the cumulative score of every player in the roster is not negative.
C19_ScoreNotNegative ==
  room.nRatingTally >= 1 => \A p \in Connected : room.score[p] >= 0

\* ---------------------------------------------------------------- C20
\* C20: a choose_civ from a player who already has a civilization leaves
\* that player's civilization as it is and starts no round.
C20_RechoiceRejected ==
  \A pid \in Connected :
    room.civ[pid] # 0 =>
      \A c \in Civs \cup {0}, ord \in Orders(room.phase = "civ_select") :
        LET after == onChooseCiv(room, pid, c, ord).room
        IN /\ after.civ[pid] = room.civ[pid]
           /\ after.round = room.round
           /\ after.pending = room.pending

\* ---------------------------------------------------------------- C21
\* C21: a create_room leaves the room already registered as it is,
\* whatever code it draws, and the room it creates is in lobby with an
\* empty roster and round 0.
C21_CreateKeepsRooms ==
  /\ \A code \in Codes : onCreateRoom(room, code).room = room
  /\ createRoom.phase = "lobby"
  /\ createRoom.players = <<>>
  /\ createRoom.round = 0

\* ---------------------------------------------------------------- C22
\* C22: at most one deadline callback is armed at any moment, and it is
\* the one the room's handle names; a host next_phase leaves no deadline
\* armed but the one it arms itself, the defense deadline when it advances
\* from attack_prep.
C22_OneDeadline ==
  /\ room.armed = (IF room.timer = NoTimer THEN 0 ELSE 1)
  /\ \A ord \in Orders(room.phase \in {"civ_select", "round_end"}) :
       LET after == onNextPhase(room, ord).room
       IN /\ after.armed <= 1
          /\ after.timer # NoTimer =>
               /\ room.phase = "attack_prep"
               /\ after.phase = "defense"
               /\ after.timer.kind = "defense"

\* two round starts in a row have each begun the attack turn: the second
\* gotoAttackPrep armed its deadline while that of the first was armed
C22_Witness ==
  /\ room.round = 2
  /\ room.phase = "attack_prep"
  /\ room.map = NoMap
  /\ room.pending = <<>>
  /\ room.timer.kind = "attack"
  /\ room.armed = 1

\* ---------------------------------------------------------------- C23
\* the step enters the defense phase on the branch of gotoDefense that logs
\* the attack speech (the branch that arms the defense deadline)
SpeechLogged ==
  /\ room.timer.kind # "defense"
  /\ room'.phase = "defense"
  /\ room'.timer.kind = "defense"

\* C23: whenever the defense phase is entered with the attack speech
\* logged, the defender is in the roster and is not the attacker.
C23_DefenderIsAnother ==
  [][SpeechLogged =>
       /\ room'.currentAttack.defenderId \in Range(room'.players)
       /\ room'.currentAttack.defenderId # room'.currentAttack.attackerId]_vars

====
